---- MODULE Spec2Model ----
(***************************************************************************)
(* Model of .github/integration-test.py: the container lifecycle helpers,  *)
(* the readiness probe check_container_ready and the run_test sequence.    *)
(*                                                                         *)
(* One process invocation (one subcommand of main) is a walk of pc over    *)
(* the statements that issue a runtime command.  The host (the runtimes on *)
(* the search path and the containers that exist) outlives an invocation;  *)
(* NewInvocation starts the next process on the same host.                 *)
(*                                                                         *)
(* Time is counted in ticks, TicksPerSec to the second.  The clock is read  *)
(* only by check_container_ready (lines 45 and 63).  Between two reads the *)
(* commands of one poll iteration have run, which takes at least one tick  *)
(* (a subprocess never returns in zero time) and at most MaxBusyTicks, and *)
(* time.sleep(5) takes SleepSecs seconds.  Outside the probe the clock is  *)
(* not tracked.                                                            *)
(***************************************************************************)
EXTENDS Integers, Sequences, FiniteSets

VARIABLES
    installed,     \* runtimes found on the search path by which()
    changes,       \* how many times the runtimes on the search path were changed
    containers,    \* names of the containers that exist on the host
    host0,         \* containers when this invocation started
    prev,          \* <<name, ok>> when the previous invocation was stop_container on an absent name
    action,        \* args.action
    name,          \* container_name / test_name
    upgrade_from,  \* args.upgrade_from
    build_args,    \* args.build_args
    timeout,       \* timeout of check_container_ready, in seconds
    pc,            \* the statement about to run, or "done" / "failed"
    error,         \* the exception that ended the invocation
    clock,         \* time.time() as last read, in ticks
    now,           \* local `now` of check_container_ready
    count,         \* per statement: how many times its command was issued
    steps,         \* the commands issued, in order, one entry per step: the step's latest command
    diag           \* outcome of the diagnostics of the current poll iteration

vars == <<installed, changes, containers, host0, prev, action, name, upgrade_from,
          build_args, timeout, pc, error, clock, now, count, steps, diag>>

----------------------------------------------------------------------------
(* Bounds of the model *)

TicksPerSec == 2
MaxBusyTicks == 6
MaxBuildArgs == 2
MaxChanges == 1

(* Program constants *)

SleepSecs == 5
DefaultTimeout == 60

Names == {"t1", "x"}
Runtimes == {"docker", "podman"}
Versions == {"", "latest"}
Timeouts == {0, 7, 10}

BuildArgValues == {"A=1", "B=2"}
BuildArgLists == UNION {[1..n -> BuildArgValues] : n \in 0..MaxBuildArgs}
ImageName == "tljh-systemd"
BuildPath == "integration-tests"

Actions == {"run-test", "show-logs", "run", "copy", "start-container",
            "stop-container", "build-image", "check-ready"}

ProbeLabels == {"probe_exec", "probe_inspect", "probe_logs"}
ProbePcs == ProbeLabels \cup {"probe_start", "probe_check", "probe_sleep"}
RunTestLabels == {"stop_inspect", "stop_rm", "run", "cp_bootstrap", "cp_tests",
                  "logs", "upgrade", "installer", "deps", "freeze", "pytest"}
Labels == RunTestLabels \cup ProbeLabels
              \cup {"journalctl", "systemctl", "exec_cmd", "copy", "build"}

NoDiag == [inspect |-> "none", logs |-> "none"]
NoPrev == <<>>

----------------------------------------------------------------------------
(* container_runtime with runtimes = ["podman", "docker"] *)
ContainerRuntimePodmanFirst(inst) ==
    IF "podman" \in inst THEN "podman"
    ELSE IF "docker" \in inst THEN "docker"
    ELSE "none"

(* container_runtime: the first of docker, podman that which() finds *)

ContainerRuntime(inst) ==
    IF "docker" \in inst THEN "docker"
    ELSE IF "podman" \in inst THEN "podman"
    ELSE "none"

(* The runtime subcommand each statement issues *)
KindOf(label) ==
    CASE label = "stop_inspect" -> "inspect"
      [] label = "probe_inspect" -> "inspect"
      [] label = "stop_rm" -> "rm"
      [] label = "run" -> "run"
      [] label = "build" -> "build"
      [] label \in {"cp_bootstrap", "cp_tests", "copy"} -> "cp"
      [] label \in {"logs", "probe_logs"} -> "logs"
      [] OTHER -> "exec"

(* The step of run_test a statement belongs to *)
StepOf(label) ==
    CASE label \in {"stop_inspect", "stop_rm"} -> "stop"
      [] label \in ProbeLabels -> "ready"
      [] OTHER -> label

(* What the runtime can answer: exit status and the containers afterwards. *)
(* inspect, exec, cp and logs of a container that does not exist fail; of  *)
(* one that exists they succeed or fail for another reason.  run refuses a *)
(* name in use, and a failed run may leave the created container behind.   *)
(* build touches no container.                                             *)
CmdResults(kind, n, cs) ==
    CASE kind = "build" -> {[ok |-> TRUE, cs |-> cs], [ok |-> FALSE, cs |-> cs]}
      [] kind = "rm" ->
            IF n \in cs
            THEN {[ok |-> TRUE, cs |-> cs \ {n}], [ok |-> FALSE, cs |-> cs]}
            ELSE {[ok |-> TRUE, cs |-> cs], [ok |-> FALSE, cs |-> cs]}
      [] kind = "run" ->
            IF n \in cs
            THEN {[ok |-> FALSE, cs |-> cs]}
            ELSE {[ok |-> TRUE, cs |-> cs \cup {n}], [ok |-> FALSE, cs |-> cs],
                  [ok |-> FALSE, cs |-> cs \cup {n}]}
      [] OTHER ->
            IF n \in cs
            THEN {[ok |-> TRUE, cs |-> cs], [ok |-> FALSE, cs |-> cs]}
            ELSE {[ok |-> FALSE, cs |-> cs]}

(* Entry with run_test starting at run_systemd_image: no pre-cleanup *)
EntryNoStop(act) ==
    CASE act = "stop-container" -> "stop_inspect"
      [] act \in {"run-test", "start-container"} -> "run"
      [] act = "show-logs" -> "journalctl"
      [] act = "run" -> "exec_cmd"
      [] act = "copy" -> "copy"
      [] act = "build-image" -> "build"
      [] act = "check-ready" -> "probe_start"

(* main: the first statement of each subcommand.  "check-ready" calls     *)
(* check_container_ready(name, timeout) directly.                         *)
Entry(act) ==
    CASE act \in {"run-test", "stop-container"} -> "stop_inspect"
      [] act = "start-container" -> "run"
      [] act = "show-logs" -> "journalctl"
      [] act = "run" -> "exec_cmd"
      [] act = "copy" -> "copy"
      [] act = "build-image" -> "build"
      [] act = "check-ready" -> "probe_start"

(* stop_container returns: to run_test, or to main *)
StopReturn(act) == IF act = "run-test" THEN "run" ELSE "done"

(* ProbeReturn with the timeout tested after a liveness command that succeeded *)
ProbeReturnCheckTimeout(act) == "probe_check"

(* ProbeReturn with the first copy of run_test left out *)
ProbeReturnSkipCopy(act) == IF act = "run-test" THEN "cp_tests" ELSE "done"

(* check_container_ready returns: to run_test, or to its caller *)
ProbeReturn(act) == IF act = "run-test" THEN "cp_bootstrap" ELSE "done"

(* OnOk with the upgrade exec issued whatever upgrade_from is *)
OnOkAlwaysUpgrade(p, act, upg) ==
    CASE p = "stop_inspect" -> "stop_rm"
      [] p = "stop_rm" -> StopReturn(act)
      [] p = "run" -> IF act = "run-test" THEN "probe_start" ELSE "done"
      [] p = "probe_exec" -> ProbeReturn(act)
      [] p = "probe_inspect" -> "probe_logs"
      [] p = "probe_logs" -> "probe_check"
      [] p = "cp_bootstrap" -> "cp_tests"
      [] p = "cp_tests" -> "logs"
      [] p = "logs" -> "upgrade"
      [] p = "upgrade" -> "installer"
      [] p = "installer" -> "deps"
      [] p = "deps" -> "freeze"
      [] p = "freeze" -> "pytest"
      [] p = "journalctl" -> "systemctl"
      [] OTHER -> "done"

(* OnOk with run_test removing its container after the verification suite *)
OnOkCleanup(p, act, upg) ==
    CASE p = "stop_inspect" -> "stop_rm"
      [] p = "stop_rm" -> IF act = "run-test" /\ count["pytest"] = 0 THEN "run" ELSE "done"
      [] p = "run" -> IF act = "run-test" THEN "probe_start" ELSE "done"
      [] p = "probe_exec" -> ProbeReturn(act)
      [] p = "probe_inspect" -> "probe_logs"
      [] p = "probe_logs" -> "probe_check"
      [] p = "cp_bootstrap" -> "cp_tests"
      [] p = "cp_tests" -> "logs"
      [] p = "logs" -> IF upg # "" THEN "upgrade" ELSE "installer"
      [] p = "upgrade" -> "installer"
      [] p = "installer" -> "deps"
      [] p = "deps" -> "freeze"
      [] p = "freeze" -> "pytest"
      [] p = "pytest" -> "stop_rm"
      [] p = "journalctl" -> "systemctl"
      [] OTHER -> "done"

(* Where control goes when the command of statement p exits with status 0 *)
OnOk(p, act, upg) ==
    CASE p = "stop_inspect" -> "stop_rm"
      [] p = "stop_rm" -> StopReturn(act)
      [] p = "run" -> IF act = "run-test" THEN "probe_start" ELSE "done"
      [] p = "probe_exec" -> ProbeReturn(act)
      [] p = "probe_inspect" -> "probe_logs"
      [] p = "probe_logs" -> "probe_check"
      [] p = "cp_bootstrap" -> "cp_tests"
      [] p = "cp_tests" -> "logs"
      [] p = "logs" -> IF upg # "" THEN "upgrade" ELSE "installer"
      [] p = "upgrade" -> "installer"
      [] p = "installer" -> "deps"
      [] p = "deps" -> "freeze"
      [] p = "freeze" -> "pytest"
      [] p = "journalctl" -> "systemctl"
      [] OTHER -> "done"

(* OnError with a failed copy of the installer sources swallowed *)
OnErrorSwallowCopy(p, act) ==
    CASE p = "stop_inspect" -> StopReturn(act)
      [] p = "probe_exec" -> "probe_inspect"
      [] p = "probe_inspect" -> "probe_logs"
      [] p = "probe_logs" -> "probe_check"
      [] p = "cp_bootstrap" -> "cp_tests"
      [] OTHER -> "failed"

(* OnError with stop_container going on to rm after a failed inspect *)
OnErrorRmAnyway(p, act) ==
    CASE p = "stop_inspect" -> "stop_rm"
      [] p = "probe_exec" -> "probe_inspect"
      [] p = "probe_inspect" -> "probe_logs"
      [] p = "probe_logs" -> "probe_check"
      [] OTHER -> "failed"

(* OnError with a failed liveness command answered by a return *)
OnErrorReadyAnyway(p, act) ==
    CASE p = "stop_inspect" -> StopReturn(act)
      [] p = "probe_exec" -> ProbeReturn(act)
      [] p = "probe_inspect" -> "probe_logs"
      [] p = "probe_logs" -> "probe_check"
      [] OTHER -> "failed"

(* OnError with the diagnostic logs fetch outside any try *)
OnErrorLogsRaises(p, act) ==
    CASE p = "stop_inspect" -> StopReturn(act)
      [] p = "probe_exec" -> "probe_inspect"
      [] p = "probe_inspect" -> "probe_logs"
      [] OTHER -> "failed"

(* OnError with the diagnostic inspect outside any try *)
OnErrorInspectRaises(p, act) ==
    CASE p = "stop_inspect" -> StopReturn(act)
      [] p = "probe_exec" -> "probe_inspect"
      [] p = "probe_logs" -> "probe_check"
      [] OTHER -> "failed"

(* Where control goes when it raises CalledProcessError: the four except  *)
(* clauses, and propagation out of main everywhere else                   *)
OnError(p, act) ==
    CASE p = "stop_inspect" -> StopReturn(act)
      [] p = "probe_exec" -> "probe_inspect"
      [] p = "probe_inspect" -> "probe_logs"
      [] p = "probe_logs" -> "probe_check"
      [] OTHER -> "failed"

(* time.sleep(1) *)
SleepTicksShort == TicksPerSec

(* time.sleep(5) *)
SleepTicks == SleepSecs * TicksPerSec

(* The timeout test with one more sleep allowed *)
TimedOutLate(clk, start, tmo) == clk - start > (tmo + SleepSecs) * TicksPerSec

(* time.time() - now > timeout *)
TimedOut(clk, start, tmo) == clk - start > tmo * TicksPerSec

(* build_systemd_image with the build arguments passed as a set of flags *)
BuildCmdDedup(image, path, bargs) ==
    LET given == {bargs[i] : i \in 1..Len(bargs)}
        first(a) == CHOOSE i \in 1..Len(bargs) :
                        bargs[i] = a /\ \A j \in 1..(i - 1) : bargs[j] # a
        kept == {first(a) : a \in given}
        pos(k) == CHOOSE i \in kept : Cardinality({j \in kept : j <= i}) = k
    IN  <<<<"build", "">>, <<"-t", image>>, <<"", path>>>>
            \o [k \in 1..Cardinality(kept) |-> <<"--build-arg", bargs[pos(k)]>>]

(* build_systemd_image: cmd = ["build", f"-t={image_name}", source_path],  *)
(* extended by one f"--build-arg={ba}" per build argument when there are   *)
(* any.  An argv element is <<flag, value>>.                               *)
BuildCmd(image, path, bargs) ==
    LET cmd == <<<<"build", "">>, <<"-t", image>>, <<"", path>>>>
    IN  IF Len(bargs) > 0
        THEN cmd \o [i \in 1..Len(bargs) |-> <<"--build-arg", bargs[i]>>]
        ELSE cmd

(* The arguments of the command of statement p that depend on the input *)
ArgsOf(p, upg, bargs) ==
    CASE p = "upgrade" -> <<<<"--version", upg>>>>
      [] p = "build" -> BuildCmd(ImageName, BuildPath, bargs)
      [] OTHER -> <<>>

(* The log of issued commands: a command of the step logged last replaces *)
(* that entry, any other command is appended                              *)
Collapse(s, e) ==
    IF Len(s) > 0 /\ s[Len(s)].step = e.step /\ s[Len(s)].name = e.name
    THEN [s EXCEPT ![Len(s)] = e]
    ELSE Append(s, e)

----------------------------------------------------------------------------
Init ==
    /\ installed \in SUBSET Runtimes
    /\ changes = 0
    /\ containers \in SUBSET Names
    /\ host0 = containers
    /\ prev = NoPrev
    /\ action \in Actions
    /\ name \in Names
    /\ upgrade_from \in (IF action = "run-test" THEN Versions ELSE {""})
    /\ build_args \in (IF action = "build-image" THEN BuildArgLists ELSE {<<>>})
    /\ timeout \in (IF action = "check-ready" THEN Timeouts ELSE {DefaultTimeout})
    /\ pc = "main"
    /\ error = "none"
    /\ clock = 0
    /\ now = 0
    /\ count = [l \in Labels |-> 0]
    /\ steps = <<>>
    /\ diag = NoDiag

(* main: dispatch on args.action *)
Main ==
    /\ pc = "main"
    /\ pc' = Entry(action)
    /\ UNCHANGED <<installed, changes, containers, host0, prev, action, name,
                   upgrade_from, build_args, timeout, error, clock, now, count, steps, diag>>

(* container_check_output / container_run at statement p: resolve the     *)
(* runtime, issue the command, branch on its exit status                  *)
Command(p) ==
    /\ pc = p
    /\ IF ContainerRuntime(installed) = "none"
       THEN /\ pc' = "failed"
            /\ error' = "NoRuntimeFound"
            /\ UNCHANGED <<containers, clock, now, count, steps, diag>>
       ELSE \E r \in CmdResults(KindOf(p), name, containers) :
            /\ containers' = r.cs
            /\ count' = [count EXCEPT ![p] = @ + 1]
            /\ steps' = Collapse(steps, [step |-> StepOf(p), label |-> p,
                                         name |-> name, ok |-> r.ok,
                                         runtime |-> ContainerRuntime(installed),
                                         args |-> ArgsOf(p, upgrade_from, build_args)])
            /\ IF p = "probe_exec" /\ r.ok /\ action = "run-test"
               THEN clock' = 0 /\ now' = 0
               ELSE UNCHANGED <<clock, now>>
            /\ diag' = CASE p = "probe_exec" -> NoDiag
                         [] p = "probe_inspect" ->
                              [diag EXCEPT !.inspect = IF r.ok THEN "ok" ELSE "fail"]
                         [] p = "probe_logs" ->
                              [diag EXCEPT !.logs = IF r.ok THEN "ok" ELSE "fail"]
                         [] OTHER -> diag
            /\ pc' = IF r.ok THEN OnOk(p, action, upgrade_from) ELSE OnError(p, action)
            /\ error' = IF pc' = "failed" THEN "CalledProcessError" ELSE error
    /\ UNCHANGED <<installed, changes, host0, prev, action, name, upgrade_from,
                   build_args, timeout>>

StopInspect == Command("stop_inspect")
StopRm == Command("stop_rm")
RunImage == Command("run")
ProbeExec == Command("probe_exec")
ProbeInspect == Command("probe_inspect")
ProbeLogs == Command("probe_logs")
CopyBootstrap == Command("cp_bootstrap")
CopyTests == Command("cp_tests")
EmitLogs == Command("logs")
Upgrade == Command("upgrade")
Installer == Command("installer")
InstallDeps == Command("deps")
Freeze == Command("freeze")
Pytest == Command("pytest")
Journalctl == Command("journalctl")
Systemctl == Command("systemctl")
ExecCmd == Command("exec_cmd")
CopyCmd == Command("copy")
BuildImage == Command("build")

(* Outside the program: a runtime is installed on, or removed from, the   *)
(* search path while the script runs                                      *)
RuntimeChange ==
    /\ changes < MaxChanges
    /\ changes' = changes + 1
    /\ installed' \in (SUBSET Runtimes) \ {installed}
    /\ UNCHANGED <<containers, host0, prev, action, name, upgrade_from, build_args,
                   timeout, pc, error, clock, now, count, steps, diag>>

(* now = time.time() *)
ProbeStart ==
    /\ pc = "probe_start"
    /\ now' = clock
    /\ pc' = "probe_exec"
    /\ UNCHANGED <<installed, changes, containers, host0, prev, action, name,
                   upgrade_from, build_args, timeout, error, clock, count, steps, diag>>

(* if time.time() - now > timeout: raise RuntimeError.  The read sees the  *)
(* d ticks that the commands of this iteration took                       *)
ProbeCheck ==
    /\ pc = "probe_check"
    /\ \E d \in 1..MaxBusyTicks :
         /\ clock' = clock + d
         /\ IF TimedOut(clock', now, timeout)
            THEN pc' = "failed" /\ error' = "NotReady"
            ELSE pc' = "probe_sleep" /\ error' = error
    /\ UNCHANGED <<installed, changes, containers, host0, prev, action, name,
                   upgrade_from, build_args, timeout, now, count, steps, diag>>

(* time.sleep(5), then the next iteration of while True *)
ProbeSleep ==
    /\ pc = "probe_sleep"
    /\ clock' = clock + SleepTicks
    /\ pc' = "probe_exec"
    /\ UNCHANGED <<installed, changes, containers, host0, prev, action, name,
                   upgrade_from, build_args, timeout, error, now, count, steps, diag>>

(* The process has exited; the script is started again on the same host *)
NewInvocation ==
    /\ pc \in {"done", "failed"}
    /\ prev' = IF action = "stop-container" /\ name \notin host0
               THEN <<name, pc = "done">> ELSE NoPrev
    /\ host0' = containers
    /\ action' \in Actions
    /\ name' \in Names
    /\ upgrade_from' \in (IF action' = "run-test" THEN Versions ELSE {""})
    /\ build_args' \in (IF action' = "build-image" THEN BuildArgLists ELSE {<<>>})
    /\ timeout' \in (IF action' = "check-ready" THEN Timeouts ELSE {DefaultTimeout})
    /\ pc' = "main"
    /\ error' = "none"
    /\ clock' = 0
    /\ now' = 0
    /\ count' = [l \in Labels |-> 0]
    /\ steps' = <<>>
    /\ diag' = NoDiag
    /\ UNCHANGED <<installed, changes, containers>>

Next ==
    \/ Main
    \/ StopInspect
    \/ StopRm
    \/ RunImage
    \/ ProbeStart
    \/ ProbeExec
    \/ ProbeInspect
    \/ ProbeLogs
    \/ ProbeCheck
    \/ ProbeSleep
    \/ CopyBootstrap
    \/ CopyTests
    \/ EmitLogs
    \/ Upgrade
    \/ Installer
    \/ InstallDeps
    \/ Freeze
    \/ Pytest
    \/ Journalctl
    \/ Systemctl
    \/ ExecCmd
    \/ CopyCmd
    \/ BuildImage
    \/ NewInvocation

Spec == Init /\ [][Next]_vars

(* The program on a host whose search path changes under it *)
NextEnv == Next \/ RuntimeChange
SpecEnv == Init /\ [][NextEnv]_vars

(* check_container_ready called on its own, with any of the timeouts, on  *)
(* a host where every command returns and every sleep ends                *)
ProbeInit ==
    /\ installed \in SUBSET Runtimes
    /\ changes = 0
    /\ containers \in SUBSET Names
    /\ host0 = containers
    /\ prev = NoPrev
    /\ action = "check-ready"
    /\ name \in Names
    /\ upgrade_from = ""
    /\ build_args = <<>>
    /\ timeout \in Timeouts \cup {DefaultTimeout}
    /\ pc = "main"
    /\ error = "none"
    /\ clock = 0
    /\ now = 0
    /\ count = [l \in Labels |-> 0]
    /\ steps = <<>>
    /\ diag = NoDiag

ProbeNext ==
    \/ Main
    \/ ProbeStart
    \/ ProbeExec
    \/ ProbeInspect
    \/ ProbeLogs
    \/ ProbeCheck
    \/ ProbeSleep

ProbeFairSpec == ProbeInit /\ [][ProbeNext]_vars /\ WF_vars(ProbeNext)

----------------------------------------------------------------------------
(* Properties *)

NoEntry == [step |-> "none", label |-> "none", name |-> "none", ok |-> TRUE,
            runtime |-> "none", args |-> <<>>]
Last == IF Len(steps) = 0 THEN NoEntry ELSE steps[Len(steps)]
StepNames == [i \in 1..Len(steps) |-> steps[i].step]
IsPrefix(s, t) == Len(s) <= Len(t) /\ \A i \in 1..Len(s) : s[i] = t[i]
CeilDiv(a, b) == (a + b - 1) \div b
RuntimeFound == ContainerRuntime(installed) # "none"
NotReady == pc = "failed" /\ error = "NotReady"

(* The steps of run_test whose failure C1 is about *)
AbortingLabels == {"run", "cp_bootstrap", "cp_tests", "upgrade", "installer",
                   "deps", "freeze", "pytest"}

(* C1: in run_test a failed run, copy or exec is the last command issued   *)
(* and leaves the invocation failed; a step after the readiness wait is    *)
(* issued only after a liveness command that succeeded; a readiness wait   *)
(* that gave up is the last step; no statement outside the probe is issued *)
(* twice and no step comes back after another one.                         *)
C1_AbortOnFirstFailure ==
    action = "run-test" =>
        /\ \A i \in 1..Len(steps) :
              (steps[i].label \in AbortingLabels /\ ~steps[i].ok)
                  => (i = Len(steps) /\ pc = "failed" /\ error = "CalledProcessError")
        /\ \A i \in 1..Len(steps) :
              (steps[i].step = "ready" /\ i < Len(steps))
                  => (steps[i].label = "probe_exec" /\ steps[i].ok)
        /\ (error = "NotReady" => pc = "failed" /\ Last.label = "probe_logs")
        /\ \A l \in Labels \ ProbeLabels : count[l] <= 1
        /\ \A i, j \in 1..Len(steps) : steps[i].step = steps[j].step => i = j

(* run_test aborted by a failed installer after a readiness wait that polled twice *)
C1_Witness ==
    /\ action = "run-test"
    /\ pc = "failed"
    /\ Last.label = "installer"
    /\ ~Last.ok
    /\ count["probe_exec"] >= 2

(* The copy, exec and readiness-check commands of run_test *)
AfterRunLabels == ProbeLabels \cup {"cp_bootstrap", "cp_tests", "upgrade", "installer",
                                    "deps", "freeze", "pytest"}

(* stop_container returned: inspect failed, or rm succeeded *)
StopReturned(e) ==
    e.step = "stop" /\ ((e.label = "stop_inspect" /\ ~e.ok) \/ (e.label = "stop_rm" /\ e.ok))

(* C2: in run_test every copy, exec and readiness command comes after a    *)
(* run command of the same name that succeeded, and every run command      *)
(* comes after a stop_container of the same name that returned.            *)
C2_RunAfterStop ==
    action = "run-test" =>
        /\ \A i \in 1..Len(steps) :
              steps[i].label \in AfterRunLabels =>
                  \E j \in 1..(i - 1) :
                      steps[j].step = "run" /\ steps[j].ok /\ steps[j].name = steps[i].name
        /\ \A i \in 1..Len(steps) :
              steps[i].step = "run" =>
                  \E j \in 1..(i - 1) :
                      StopReturned(steps[j]) /\ steps[j].name = steps[i].name

(* run_test has removed a container of the same name, run a new one and copied into it *)
C2_Witness ==
    /\ action = "run-test"
    /\ name \in host0
    /\ count["stop_rm"] = 1
    /\ count["cp_bootstrap"] = 1

(* The order of steps C3 states *)
ExpectedSteps(upg) ==
    <<"stop", "run", "ready", "cp_bootstrap", "cp_tests", "logs">>
        \o (IF upg # "" THEN <<"upgrade">> ELSE <<>>)
        \o <<"installer", "deps", "freeze", "pytest">>

(* C3: the steps run_test has issued are always an initial part of the     *)
(* stated order, all on test_name; when run_test returns they are the      *)
(* whole of it, each statement issued once (rm only for a container that   *)
(* existed, the upgrade only when asked for).                              *)
C3_StepOrder ==
    action = "run-test" =>
        /\ IsPrefix(StepNames, ExpectedSteps(upgrade_from))
        /\ \A i \in 1..Len(steps) : steps[i].name = name
        /\ pc = "done" =>
              /\ StepNames = ExpectedSteps(upgrade_from)
              /\ \A l \in RunTestLabels \ {"stop_rm", "upgrade"} : count[l] = 1
              /\ count["upgrade"] = (IF upgrade_from # "" THEN 1 ELSE 0)
              /\ \A i \in 2..Len(steps) : steps[i].ok

(* run_test returned, with an upgrade, after removing an older container *)
C3_Witness ==
    /\ action = "run-test"
    /\ pc = "done"
    /\ upgrade_from # ""
    /\ name \in host0

(* C4: with a runtime on the path, stop_container of a name that does not  *)
(* exist never fails, issues one inspect and nothing else, and leaves the  *)
(* containers as they were; so a stop_container that follows it on the     *)
(* same name finds the name absent again and succeeds the same way.        *)
C4_StopAbsentIdempotent ==
    RuntimeFound =>
        /\ (action = "stop-container" /\ name \notin host0) =>
              /\ pc # "failed"
              /\ containers = host0
              /\ count["stop_inspect"] <= 1
              /\ \A l \in Labels \ {"stop_inspect"} : count[l] = 0
              /\ pc = "done" => count["stop_inspect"] = 1
        /\ prev # NoPrev => (prev[2] /\ prev[1] \notin host0)

(* the second of two stop_container calls on an absent name has returned *)
C4_Witness ==
    /\ RuntimeFound
    /\ prev # NoPrev
    /\ action = "stop-container"
    /\ name = prev[1]
    /\ pc = "done"
    /\ containers # {}

(* C5: when stop_container returns, no container of that name remains.     *)
C5_StopLeavesNone ==
    (action = "stop-container" /\ pc = "done") => name \notin containers

(* C6: when run_test is about to issue the run command, no container of    *)
(* that name exists.                                                       *)
C6_NoContainerAtRun ==
    (action = "run-test" /\ pc = "run" /\ RuntimeFound) => name \notin containers

(* C7: the number of liveness attempts never exceeds ceil(T/I) + 1.        *)
C7_AttemptBound ==
    count["probe_exec"] <= CeilDiv(timeout, SleepSecs) + 1

(* the probe gave up after exactly ceil(7/5) + 1 = 3 attempts *)
C7_Witness ==
    /\ NotReady
    /\ timeout = 7
    /\ count["probe_exec"] = CeilDiv(timeout, SleepSecs) + 1

(* C8 as stated: with a timeout of 10 s the probe gives up after exactly   *)
(* 2 attempts.                                                             *)
C8_ExactlyTwoAttempts ==
    (NotReady /\ timeout = 10) => count["probe_exec"] = 2

(* C8 amended: with a timeout of 10 s the probe gives up after at most 3   *)
(* attempts; after 2 only when the commands of the two polls took more     *)
(* than 5 s, after 1 only when those of the first took more than 10 s.     *)
C8_AtMostThreeAttempts ==
    (NotReady /\ timeout = 10) =>
        /\ count["probe_exec"] \in 1..3
        /\ count["probe_exec"] = 2 =>
              (clock - now) - SleepTicks > (timeout - SleepSecs) * TicksPerSec
        /\ count["probe_exec"] = 1 => clock - now > timeout * TicksPerSec

(* the probe gave up after 3 attempts with a timeout of 10 s *)
C8_Witness ==
    /\ NotReady
    /\ timeout = 10
    /\ count["probe_exec"] = 3

(* C9: the probe is left for the caller only by the step that issues a     *)
(* liveness command and sees it succeed, and each iteration, the first and *)
(* the ones after a sleep, starts with a liveness command that is issued   *)
(* anew.                                                                   *)
C9_FreshLiveness ==
    [][/\ (pc \in ProbePcs /\ pc' \notin ProbePcs \cup {"failed"}) =>
              /\ pc = "probe_exec"
              /\ count'["probe_exec"] = count["probe_exec"] + 1
              /\ Last'.label = "probe_exec"
              /\ Last'.ok
       /\ (pc \in {"probe_start", "probe_sleep"} /\ pc' # pc) => pc' = "probe_exec"
       /\ (pc = "probe_exec" /\ pc' \in ProbePcs /\ pc' # pc) =>
              /\ count'["probe_exec"] = count["probe_exec"] + 1
              /\ ~Last'.ok
              /\ pc' = "probe_inspect"]_vars

(* run_test got Ready from the second or a later poll, after diagnostics were read *)
C9_Witness ==
    /\ action = "run-test"
    /\ pc = "cp_bootstrap"
    /\ count["probe_exec"] >= 2
    /\ count["probe_inspect"] >= 1
    /\ Last.label = "probe_exec"

(* C10: after the diagnostic inspect, failed or not, the logs are fetched; *)
(* after the logs fetch, failed or not, the timeout is tested; and once a  *)
(* poll has failed the probe is left only by the timeout test raising the  *)
(* not-ready error (or, from a later liveness command, as C9 says).        *)
C10_DiagnosticsBestEffort ==
    [][/\ (pc = "probe_inspect" /\ pc' # pc) => pc' = "probe_logs"
       /\ (pc = "probe_logs" /\ pc' # pc) => pc' = "probe_check"
       /\ (pc \in {"probe_inspect", "probe_logs", "probe_check", "probe_sleep"}
             /\ pc' \notin ProbePcs)
              => (pc = "probe_check" /\ pc' = "failed" /\ error' = "NotReady")]_vars

(* both diagnostics failed in every poll, the loop went on, and the probe  *)
(* ended in the not-ready error                                            *)
C10_Witness ==
    /\ NotReady
    /\ name \notin containers
    /\ count["probe_exec"] >= 2
    /\ diag.inspect = "fail"
    /\ diag.logs = "fail"

(* C11: in run_test a failed fetch of the container logs (step 5) does not *)
(* end the invocation.                                                     *)
C11_LogsBestEffort ==
    (action = "run-test" /\ Last.label = "logs" /\ ~Last.ok) => pc # "failed"

(* C12: all commands of one process were issued to the same runtime.       *)
C12_OneRuntimePerProcess ==
    \A i, j \in 1..Len(steps) : steps[i].runtime = steps[j].runtime

(* C13: in run_test the upgrade exec is issued only with a non-empty       *)
(* upgrade_from, carries --version=<upgrade_from>, comes right after the   *)
(* logs and, once the installer exec is issued, right before it; with an   *)
(* empty upgrade_from the installer exec comes right after the logs.       *)
C13_UpgradeIffAsked ==
    action = "run-test" =>
        /\ count["upgrade"] > 0 => upgrade_from # ""
        /\ \A i \in 1..Len(steps) :
              steps[i].label = "upgrade" =>
                  /\ steps[i].args = <<<<"--version", upgrade_from>>>>
                  /\ i > 1
                  /\ steps[i - 1].label = "logs"
        /\ \A i \in 1..Len(steps) :
              steps[i].label = "installer" =>
                  /\ i > 1
                  /\ steps[i - 1].label = (IF upgrade_from # "" THEN "upgrade" ELSE "logs")
        /\ (upgrade_from # "" /\ pc \in {"installer", "deps", "freeze", "pytest", "done"})
              => count["upgrade"] = 1
        /\ (upgrade_from = "" /\ pc = "done")
              => StepNames = <<"stop", "run", "ready", "cp_bootstrap", "cp_tests", "logs",
                               "installer", "deps", "freeze", "pytest">>

(* run_test returned without an upgrade *)
C13_Witness ==
    /\ action = "run-test"
    /\ pc = "done"
    /\ upgrade_from = ""
    /\ count["upgrade"] = 0
    /\ count["installer"] = 1

(* C14: every command goes to docker when docker is on the path, to podman *)
(* when only podman is; with neither, no command is issued and the         *)
(* invocation can end only in the no-runtime-found error.                  *)
C14_RuntimePreference ==
    /\ "docker" \in installed => \A i \in 1..Len(steps) : steps[i].runtime = "docker"
    /\ installed = {"podman"} => \A i \in 1..Len(steps) : steps[i].runtime = "podman"
    /\ installed = {} =>
          /\ steps = <<>>
          /\ \A l \in Labels : count[l] = 0
          /\ pc # "done"
          /\ pc = "failed" => error = "NoRuntimeFound"
    /\ error = "NoRuntimeFound" => installed = {}

(* with both runtimes on the path a subcommand has finished on docker *)
C14_Witness ==
    /\ installed = {"docker", "podman"}
    /\ pc = "done"
    /\ Len(steps) > 0
    /\ Last.runtime = "docker"

(* The --build-arg flags of an argv, in order *)
BuildArgFlags(argv) ==
    LET idx == {i \in 1..Len(argv) : argv[i][1] = "--build-arg"}
        nth(k) == CHOOSE i \in idx : Cardinality({j \in idx : j <= i}) = k
    IN  [k \in 1..Cardinality(idx) |-> argv[nth(k)][2]]

(* C15: the build command carries one --build-arg flag per build argument, *)
(* in the order given, after build, -t=<image> and the context path, and   *)
(* nothing else.                                                           *)
C15_BuildArgsInOrder ==
    \A i \in 1..Len(steps) :
        steps[i].label = "build" =>
            /\ BuildArgFlags(steps[i].args) = build_args
            /\ Len(steps[i].args) = 3 + Len(build_args)
            /\ steps[i].args[1] = <<"build", "">>
            /\ steps[i].args[2] = <<"-t", ImageName>>
            /\ steps[i].args[3] = <<"", BuildPath>>

(* an image was built with the same build argument given twice *)
C15_Witness ==
    /\ action = "build-image"
    /\ pc = "done"
    /\ Len(build_args) = 2
    /\ build_args[1] = build_args[2]

(* C16: with a runtime on the path, a probe that has started is eventually *)
(* left, and it is left only by a liveness command that succeeded or by    *)
(* the not-ready error.                                                    *)
C16_ProbeTerminates ==
    /\ (pc \in ProbePcs /\ RuntimeFound) ~> (pc \notin ProbePcs)
    /\ [][(pc \in ProbePcs /\ pc' \notin ProbePcs /\ RuntimeFound) =>
              \/ pc = "probe_exec" /\ Last'.label = "probe_exec" /\ Last'.ok
                    /\ pc' # "failed"
              \/ pc = "probe_check" /\ pc' = "failed" /\ error' = "NotReady"]_vars

(* the probe gave up after the default timeout, its container being there *)
C16_Witness ==
    /\ NotReady
    /\ timeout = DefaultTimeout
    /\ name \in containers
    /\ count["probe_exec"] >= 2

(* C17: a liveness command that succeeds ends the probe with Ready in the  *)
(* same step, whatever the clock shows; the not-ready error is raised only *)
(* by the timeout test, which runs only after a liveness command that      *)
(* failed; and the probe is never left before one liveness attempt.        *)
C17_TimeoutOnlyAfterFailure ==
    [][/\ (pc = "probe_exec" /\ count'["probe_exec"] = count["probe_exec"] + 1 /\ Last'.ok)
              => (pc' \notin ProbePcs \cup {"failed"} /\ error' = "none")
       /\ (error # "NotReady" /\ error' = "NotReady")
              => (pc = "probe_check" /\ Last.step = "ready" /\ Last.label # "probe_exec"
                  /\ count["probe_exec"] >= 1)
       /\ (pc \in ProbePcs /\ pc' \notin ProbePcs /\ RuntimeFound)
              => count'["probe_exec"] >= 1]_vars

(* Ready from a liveness command issued when the timeout had already passed *)
C17_Witness ==
    /\ action = "check-ready"
    /\ pc = "done"
    /\ Last.label = "probe_exec"
    /\ Last.ok
    /\ TimedOut(clock, now, timeout)

(* C18: once the run command of run_test has succeeded, the container      *)
(* exists for the rest of the invocation and no rm is issued after it.     *)
C18_NoTeardown ==
    action = "run-test" =>
        \A i \in 1..Len(steps) :
            (steps[i].step = "run" /\ steps[i].ok) =>
                /\ name \in containers
                /\ \A j \in (i + 1)..Len(steps) : KindOf(steps[j].label) # "rm"
                /\ \A j \in 1..Len(steps) : steps[j].step = "stop" => j < i

(* run_test was aborted by the verification suite and its container is still there *)
C18_Witness ==
    /\ action = "run-test"
    /\ pc = "failed"
    /\ Last.label = "pytest"
    /\ name \in containers
    /\ count["stop_rm"] = 1

====
